---- MODULE Spec2Model ----
(***************************************************************************)
(* Model of interpreter/operator_aggregate.go: the aggregate operators     *)
(* AllTrue, AnyTrue, Count and Sum of the CQL interpreter, evaluated on an *)
(* already evaluated operand.                                              *)
(*                                                                         *)
(* Number representations.  The model checker's integers are 32 bits wide, *)
(* so machine integers are kept as little-endian tuples of 16-bit limbs in *)
(* two's complement (2 limbs for int32, 4 limbs for int64), and float64    *)
(* values are kept, on the sub-domain of integer-valued doubles, as the    *)
(* exact integer hi * 2^27 + lo with 0 <= lo < 2^27.                       *)
(***************************************************************************)
EXTENDS Integers, Sequences, FiniteSets, TLC

VARIABLES operand, op, res

vars == <<operand, op, res>>

\* Longest operand list explored.
MaxLen == 3

-----------------------------------------------------------------------------
(* Machine integers: int32 and int64                                       *)

LimbBase == 2^16

SignLimb == 2^15

Int32Limbs == 2

Int64Limbs == 4

RECURSIVE AddLimbs(_, _, _, _)
\* Ripple-carry addition of two limb tuples of equal length from limb k on;
\* the carry out of the top limb is dropped (two's complement wraparound).
AddLimbs(a, b, k, carry) ==
    IF k > Len(a) THEN <<>>
    ELSE LET s == a[k] + b[k] + carry
         IN  <<s % LimbBase>> \o AddLimbs(a, b, k + 1, s \div LimbBase)

\* A variant of the addition that clamps at the type's bounds instead of
\* wrapping around.
AddSaturating(a, b) ==
    LET s    == AddLimbs(a, b, 1, 0)
        n    == Len(a)
        negA == a[n] >= SignLimb
        negB == b[n] >= SignLimb
        negS == s[n] >= SignLimb
    IN  IF negA = negB /\ negS # negA
        THEN IF negA
             THEN [i \in 1..n |-> IF i = n THEN SignLimb ELSE 0]
             ELSE [i \in 1..n |-> IF i = n THEN SignLimb - 1 ELSE LimbBase - 1]
        ELSE s

\* Go's += on int32 / int64: addition modulo 2^w.
AddWrap(a, b) == AddLimbs(a, b, 1, 0)

\* The int32 zero value of "var sum int32" and the int64 zero value.
ZeroInt(n) == [i \in 1..n |-> 0]

\* int32(count) of a small natural number.
Int32OfNat(c) == <<c % LimbBase, (c \div LimbBase) % LimbBase>>

-----------------------------------------------------------------------------
(* float64 on integer-valued doubles                                       *)

FBase == 2^27

\* hi of 2^53: magnitudes below it are exactly representable.
FExactHi == 2^26

F(hi, lo) == [hi |-> hi, lo |-> lo]

FZero == F(0, 0)

FNeg(x) == IF x.lo = 0 THEN F(-x.hi, 0) ELSE F(-x.hi - 1, FBase - x.lo)

\* The exact integer sum.
FExactAdd(a, b) ==
    LET s == a.lo + b.lo
    IN  F(a.hi + b.hi + s \div FBase, s % FBase)

RECURSIVE FUlp(_)
\* Spacing of the doubles around a magnitude with the given hi part.
FUlp(hi) == IF hi < FExactHi THEN 1 ELSE 2 * FUlp(hi \div 2)

\* Round a non-negative exact integer to the nearest double, ties to even.
FRoundMag(m) ==
    LET ulp  == FUlp(m.hi)
        r    == m.lo % ulp
        odd  == (m.lo \div ulp) % 2 = 1
        up   == 2 * r > ulp \/ (2 * r = ulp /\ odd)
        lo   == IF up THEN m.lo - r + ulp ELSE m.lo - r
    IN  IF lo = FBase THEN F(m.hi + 1, 0) ELSE F(m.hi, lo)

FRound(x) == IF x.hi < 0 THEN FNeg(FRoundMag(FNeg(x))) ELSE FRoundMag(x)

\* Go's += on float64: the exact sum rounded to nearest, ties to even.
FAdd(a, b) == FRound(FExactAdd(a, b))

-----------------------------------------------------------------------------
(* result.Value                                                            *)

\* A value: its kind and one payload field per kind (the unused payload
\* fields hold a fixed filler).
V(kind, b, n, f, u) == [kind |-> kind, b |-> b, n |-> n, f |-> f, u |-> u]

\* result.New(nil), also the zero result.Value{}.
NullV == V("Null", FALSE, <<>>, FZero, "")

BoolV(b) == V("Boolean", b, <<>>, FZero, "")

IntV(n) == V("Integer", FALSE, n, FZero, "")

LongV(n) == V("Long", FALSE, n, FZero, "")

DecV(f) == V("Decimal", FALSE, <<>>, f, "")

QtyV(f, u) == V("Quantity", FALSE, <<>>, f, u)

StrV == V("String", FALSE, <<>>, FZero, "")

\* result.New: wraps a Go value into a present Value of the matching kind.
New(v) == v

NoErr == [kind |-> "", op |-> "", u1 |-> "", u2 |-> ""]

\* An error whose message was built without the node: it holds no operator
\* name.
ConvErr(kind) == [kind |-> kind, op |-> "", u1 |-> "", u2 |-> ""]

\* (value, nil)
Ok(v) == [failed |-> FALSE, val |-> v, err |-> NoErr]

\* (result.Value{}, err)
Fail(e) == [failed |-> TRUE, val |-> NullV, err |-> e]

IsNull(v) == v.kind = "Null"

\* An operand is null or present, list-typed or not; type is the declared
\* element type of a list-typed operand and the declared type otherwise.
Operand(null, list, type, elems) ==
    [null |-> null, list |-> list, type |-> type, elems |-> elems]

IsNullOperand(o) == o.null

\* operand.RuntimeType().(*types.List)
RuntimeType(o) == [list |-> o.list, ElementType |-> o.type]

ToSlice(o) ==
    IF o.null \/ ~o.list THEN Fail(ConvErr("CannotConvert")) ELSE Ok(o.elems)

ToBool(e) == IF e.kind = "Boolean" THEN Ok(e.b) ELSE Fail(ConvErr("CannotConvert"))

ToInt32(e) == IF e.kind = "Integer" THEN Ok(e.n) ELSE Fail(ConvErr("CannotConvert"))

ToInt64(e) == IF e.kind = "Long" THEN Ok(e.n) ELSE Fail(ConvErr("CannotConvert"))

ToFloat64(e) == IF e.kind = "Decimal" THEN Ok(e.f) ELSE Fail(ConvErr("CannotConvert"))

ToQuantity(e) ==
    IF e.kind = "Quantity" THEN Ok([Value |-> e.f, Unit |-> e.u])
    ELSE Fail(ConvErr("CannotConvert"))

\* m.GetName() of the node the dispatcher passes to each operator.
GetName(m) == m

-----------------------------------------------------------------------------
(* AllTrue, AnyTrue, Count                                                 *)

RECURSIVE allTrueLoopSkipBad(_, _)
\* A loop that skips an element that does not coerce to boolean.
allTrueLoopSkipBad(l, k) ==
    IF k > Len(l) THEN Ok(New(BoolV(TRUE)))
    ELSE IF IsNull(l[k]) THEN allTrueLoopSkipBad(l, k + 1)
    ELSE LET bv == ToBool(l[k])
         IN  IF bv.failed THEN allTrueLoopSkipBad(l, k + 1)
             ELSE IF ~bv.val THEN Ok(New(BoolV(FALSE)))
             ELSE allTrueLoopSkipBad(l, k + 1)

RECURSIVE allTrueLoopNullIsFalse(_, _)
\* A loop that takes a null element for false.
allTrueLoopNullIsFalse(l, k) ==
    IF k > Len(l) THEN Ok(New(BoolV(TRUE)))
    ELSE IF IsNull(l[k]) THEN Ok(New(BoolV(FALSE)))
    ELSE LET bv == ToBool(l[k])
         IN  IF bv.failed THEN Fail(bv.err)
             ELSE IF ~bv.val THEN Ok(New(BoolV(FALSE)))
             ELSE allTrueLoopNullIsFalse(l, k + 1)

RECURSIVE allTrueLoop(_, _)
\* for _, elem := range l, from element k on.
allTrueLoop(l, k) ==
    IF k > Len(l) THEN Ok(New(BoolV(TRUE)))
    ELSE IF IsNull(l[k]) THEN allTrueLoop(l, k + 1)
    ELSE LET bv == ToBool(l[k])
         IN  IF bv.failed THEN Fail(bv.err)
             ELSE IF ~bv.val THEN Ok(New(BoolV(FALSE)))
             ELSE allTrueLoop(l, k + 1)

evalAllTrue(m, o) ==
    IF IsNullOperand(o) THEN Ok(New(BoolV(TRUE)))
    ELSE LET l == ToSlice(o)
         IN  IF l.failed THEN Fail(l.err)
             ELSE allTrueLoop(l.val, 1)

RECURSIVE anyTrueLoop(_, _)
anyTrueLoop(l, k) ==
    IF k > Len(l) THEN Ok(New(BoolV(FALSE)))
    ELSE IF IsNull(l[k]) THEN anyTrueLoop(l, k + 1)
    ELSE LET bv == ToBool(l[k])
         IN  IF bv.failed THEN Fail(bv.err)
             ELSE IF bv.val THEN Ok(New(BoolV(TRUE)))
             ELSE anyTrueLoop(l, k + 1)

evalAnyTrue(m, o) ==
    IF IsNullOperand(o) THEN Ok(New(BoolV(FALSE)))
    ELSE LET l == ToSlice(o)
         IN  IF l.failed THEN Fail(l.err)
             ELSE anyTrueLoop(l.val, 1)

\* A loop that counts every element, null or not.
countLoopAll(l, k, count) == Len(l)

RECURSIVE countLoop(_, _, _)
countLoop(l, k, count) ==
    IF k > Len(l) THEN count
    ELSE IF ~IsNull(l[k]) THEN countLoop(l, k + 1, count + 1)
    ELSE countLoop(l, k + 1, count)

evalCount(m, o) ==
    IF IsNullOperand(o) THEN Ok(New(IntV(Int32OfNat(0))))
    ELSE LET l == ToSlice(o)
         IN  IF l.failed THEN Fail(l.err)
             ELSE Ok(New(IntV(Int32OfNat(countLoop(l.val, 1, 0)))))

-----------------------------------------------------------------------------
(* Sum                                                                     *)

\* An error built with fmt.Errorf("Sum(%v) ...", m.GetName(), ...).
SumErr(kind, m, u1, u2) == [kind |-> kind, op |-> GetName(m), u1 |-> u1, u2 |-> u2]

RECURSIVE sumDecimal(_, _, _, _)
\* case types.Decimal: the loop from element k on, then the answer.
sumDecimal(l, k, sum, foundValue) ==
    IF k > Len(l)
    THEN IF ~foundValue THEN Ok(New(NullV)) ELSE Ok(New(DecV(sum)))
    ELSE IF IsNull(l[k]) THEN sumDecimal(l, k + 1, sum, foundValue)
    ELSE LET v == ToFloat64(l[k])
         IN  IF v.failed THEN Fail(v.err)
             ELSE sumDecimal(l, k + 1, FAdd(sum, v.val), TRUE)

RECURSIVE sumIntegerZeroForEmpty(_, _, _, _)
\* The Integer loop without the foundValue test: no element gives 0.
sumIntegerZeroForEmpty(l, k, sum, foundValue) ==
    IF k > Len(l)
    THEN Ok(New(IntV(sum)))
    ELSE IF IsNull(l[k]) THEN sumIntegerZeroForEmpty(l, k + 1, sum, foundValue)
    ELSE LET v == ToInt32(l[k])
         IN  IF v.failed THEN Fail(v.err)
             ELSE sumIntegerZeroForEmpty(l, k + 1, AddWrap(sum, v.val), TRUE)

RECURSIVE sumIntegerStopAtNull(_, _, _, _)
\* The Integer loop that stops at the first null element instead of
\* skipping it.
sumIntegerStopAtNull(l, k, sum, foundValue) ==
    IF k > Len(l) \/ IsNull(l[k])
    THEN IF ~foundValue THEN Ok(New(NullV)) ELSE Ok(New(IntV(sum)))
    ELSE LET v == ToInt32(l[k])
         IN  IF v.failed THEN Fail(v.err)
             ELSE sumIntegerStopAtNull(l, k + 1, AddWrap(sum, v.val), TRUE)

RECURSIVE sumInteger(_, _, _, _)
\* case types.Integer
sumInteger(l, k, sum, foundValue) ==
    IF k > Len(l)
    THEN IF ~foundValue THEN Ok(New(NullV)) ELSE Ok(New(IntV(sum)))
    ELSE IF IsNull(l[k]) THEN sumInteger(l, k + 1, sum, foundValue)
    ELSE LET v == ToInt32(l[k])
         IN  IF v.failed THEN Fail(v.err)
             ELSE sumInteger(l, k + 1, AddWrap(sum, v.val), TRUE)

RECURSIVE sumLong(_, _, _, _)
\* case types.Long
sumLong(l, k, sum, foundValue) ==
    IF k > Len(l)
    THEN IF ~foundValue THEN Ok(New(NullV)) ELSE Ok(New(LongV(sum)))
    ELSE IF IsNull(l[k]) THEN sumLong(l, k + 1, sum, foundValue)
    ELSE LET v == ToInt64(l[k])
         IN  IF v.failed THEN Fail(v.err)
             ELSE sumLong(l, k + 1, AddWrap(sum, v.val), TRUE)

RECURSIVE sumQuantityNoUnitCheck(_, _, _, _, _)
\* The Quantity loop without the unit comparison.
sumQuantityNoUnitCheck(m, l, k, sum, foundValue) ==
    IF k > Len(l)
    THEN IF ~foundValue THEN Ok(New(NullV))
         ELSE Ok(New(QtyV(sum.Value, sum.Unit)))
    ELSE IF IsNull(l[k]) THEN sumQuantityNoUnitCheck(m, l, k + 1, sum, foundValue)
    ELSE LET v == ToQuantity(l[k])
         IN  IF v.failed THEN Fail(v.err)
             ELSE LET s == IF ~foundValue
                           THEN [Value |-> FZero, Unit |-> v.val.Unit]
                           ELSE sum
                  IN  sumQuantityNoUnitCheck(m, l, k + 1,
                          [Value |-> FAdd(s.Value, v.val.Value), Unit |-> s.Unit],
                          TRUE)

RECURSIVE sumQuantity(_, _, _, _, _)
\* case types.Quantity
sumQuantity(m, l, k, sum, foundValue) ==
    IF k > Len(l)
    THEN IF ~foundValue THEN Ok(New(NullV))
         ELSE Ok(New(QtyV(sum.Value, sum.Unit)))
    ELSE IF IsNull(l[k]) THEN sumQuantity(m, l, k + 1, sum, foundValue)
    ELSE LET v == ToQuantity(l[k])
         IN  IF v.failed THEN Fail(v.err)
             ELSE LET s == IF ~foundValue
                           THEN [Value |-> FZero, Unit |-> v.val.Unit]
                           ELSE sum
                  IN  IF s.Unit # v.val.Unit
                      THEN Fail(SumErr("DifferentUnits", m, s.Unit, v.val.Unit))
                      ELSE sumQuantity(m, l, k + 1,
                               [Value |-> FAdd(s.Value, v.val.Value), Unit |-> s.Unit],
                               TRUE)

\* The zero value of "var sum result.Quantity".
ZeroQuantity == [Value |-> FZero, Unit |-> ""]

\* A switch without the types.Any case: List<Any> reaches the default.
sumSwitchNoAny(m, ElementType, l) ==
    CASE ElementType = "Decimal" -> sumDecimal(l, 1, FZero, FALSE)
      [] ElementType = "Integer" -> sumInteger(l, 1, ZeroInt(Int32Limbs), FALSE)
      [] ElementType = "Long" -> sumLong(l, 1, ZeroInt(Int64Limbs), FALSE)
      [] ElementType = "Quantity" -> sumQuantity(m, l, 1, ZeroQuantity, FALSE)
      [] OTHER -> Fail(SumErr("UnsupportedElementType", m, "", ""))

\* switch lType.ElementType
sumSwitch(m, ElementType, l) ==
    CASE ElementType = "Any" -> Ok(New(NullV))
      [] ElementType = "Decimal" -> sumDecimal(l, 1, FZero, FALSE)
      [] ElementType = "Integer" -> sumInteger(l, 1, ZeroInt(Int32Limbs), FALSE)
      [] ElementType = "Long" -> sumLong(l, 1, ZeroInt(Int64Limbs), FALSE)
      [] ElementType = "Quantity" -> sumQuantity(m, l, 1, ZeroQuantity, FALSE)
      [] OTHER -> Fail(SumErr("UnsupportedElementType", m, "", ""))

\* Sum with the list conversion before the null test.
evalSumSliceFirst(m, o) ==
    LET l == ToSlice(o)
    IN  IF l.failed THEN Fail(l.err)
        ELSE IF IsNullOperand(o) THEN Ok(New(NullV))
        ELSE sumSwitch(m, RuntimeType(o).ElementType, l.val)

evalSum(m, o) ==
    IF IsNullOperand(o) THEN Ok(New(NullV))
    ELSE LET l == ToSlice(o)
         IN  IF l.failed THEN Fail(l.err)
             ELSE LET lType == RuntimeType(o)
                  IN  IF ~lType.list
                      THEN Fail(SumErr("NotAList", m, "", ""))
                      ELSE sumSwitch(m, lType.ElementType, l.val)

-----------------------------------------------------------------------------
(* The operands explored and the evaluation of one operator on one operand *)

Types == {"Boolean", "Integer", "Long", "Decimal", "Quantity", "Any", "String"}

MaxInt32 == <<LimbBase - 1, SignLimb - 1>>

MinInt32 == <<0, SignLimb>>

MaxInt64 == <<LimbBase - 1, LimbBase - 1, LimbBase - 1, SignLimb - 1>>

MinInt64 == <<0, 0, 0, SignLimb>>

\* 2^53 and -2^53, where the spacing of the doubles becomes 2.
FBig == F(FExactHi, 0)

FNegBig == F(-FExactHi, 0)

\* The elements a list of the given declared element type is drawn from:
\* null, values of the declared type, and a value of another kind.
ElementsOf(t) ==
    CASE t = "Boolean" -> {NullV, BoolV(TRUE), BoolV(FALSE), StrV}
      [] t = "Integer" -> {NullV, IntV(<<0, 0>>), IntV(<<1, 0>>),
                           IntV(<<LimbBase - 1, LimbBase - 1>>),
                           IntV(MaxInt32), IntV(MinInt32), StrV}
      [] t = "Long" -> {NullV, LongV(<<0, 0, 0, 0>>), LongV(<<1, 0, 0, 0>>),
                        LongV(<<LimbBase - 1, LimbBase - 1, LimbBase - 1, LimbBase - 1>>),
                        LongV(MaxInt64), LongV(MinInt64), StrV}
      [] t = "Decimal" -> {NullV, DecV(FZero), DecV(F(0, 1)), DecV(F(-1, FBase - 1)),
                           DecV(FBig), DecV(FNegBig), StrV}
      [] t = "Quantity" -> {NullV, QtyV(F(0, 1), "mg"), QtyV(F(-1, FBase - 1), "mg"),
                            QtyV(F(0, 2), "g"), QtyV(FBig, "mg"), QtyV(FNegBig, "mg"),
                            StrV}
      [] t = "Any" -> {NullV, BoolV(TRUE), IntV(<<1, 0>>)}
      [] OTHER -> {NullV, StrV}

SeqsUpTo(S, n) == UNION {[1..k -> S] : k \in 0..n}

Operands ==
    {Operand(TRUE, list, t, <<>>) : list \in BOOLEAN, t \in Types}
    \cup {Operand(FALSE, FALSE, t, <<>>) : t \in Types}
    \cup UNION {{Operand(FALSE, TRUE, t, l) : l \in SeqsUpTo(ElementsOf(t), MaxLen)}
                : t \in Types}

\* The dispatcher's call of the operator named name on operand o.
Eval(name, o) ==
    CASE name = "AllTrue" -> evalAllTrue(name, o)
      [] name = "AnyTrue" -> evalAnyTrue(name, o)
      [] name = "Count" -> evalCount(name, o)
      [] OTHER -> evalSum(name, o)

Init ==
    /\ operand \in Operands
    /\ op = "none"
    /\ res = Ok(NullV)

AllTrue ==
    /\ op' = "AllTrue"
    /\ res' = evalAllTrue("AllTrue", operand)
    /\ UNCHANGED operand

AnyTrue ==
    /\ op' = "AnyTrue"
    /\ res' = evalAnyTrue("AnyTrue", operand)
    /\ UNCHANGED operand

Count ==
    /\ op' = "Count"
    /\ res' = evalCount("Count", operand)
    /\ UNCHANGED operand

Sum ==
    /\ op' = "Sum"
    /\ res' = evalSum("Sum", operand)
    /\ UNCHANGED operand

Next == AllTrue \/ AnyTrue \/ Count \/ Sum

Spec == Init /\ [][Next]_vars

TypeOK ==
    /\ operand \in Operands
    /\ op \in {"none", "AllTrue", "AnyTrue", "Count", "Sum"}
    /\ res.failed \in BOOLEAN

-----------------------------------------------------------------------------
(* Vocabulary of the properties                                            *)

PresentList == ~operand.null /\ operand.list

NonNullIdx == {i \in 1..Len(operand.elems) : ~IsNull(operand.elems[i])}

NonNullElems == SelectSeq(operand.elems, LAMBDA e : ~IsNull(e))

AllNonNullOfKind(kind) == \A i \in NonNullIdx : operand.elems[i].kind = kind

\* Limb p of a two's complement number as a signed column value.
SignedLimb(a, p) == IF p = Len(a) /\ a[p] >= SignLimb THEN a[p] - LimbBase ELSE a[p]

RECURSIVE ColSum(_, _)
ColSum(xs, p) ==
    IF xs = <<>> THEN 0 ELSE SignedLimb(Head(xs).n, p) + ColSum(Tail(xs), p)

RECURSIVE Normalize(_, _, _, _)
Normalize(xs, p, n, carry) ==
    IF p > n THEN <<>>
    ELSE LET s == ColSum(xs, p) + carry
         IN  <<s % LimbBase>> \o Normalize(xs, p + 1, n, s \div LimbBase)

\* The mathematical sum of the integers xs reduced modulo 2^(16 n) into the
\* signed range, as n limbs.
MathSumMod(xs, n) == Normalize(xs, 1, n, 0)

RECURSIVE FSumLeft(_, _)
\* The float64 sum of the magnitudes xs added to acc from left to right.
FSumLeft(xs, acc) ==
    IF xs = <<>> THEN acc ELSE FSumLeft(Tail(xs), FAdd(acc, Head(xs).f))

\* The sum of the non-null elements as a value of the declared element type.
TypedSum ==
    CASE operand.type = "Integer" -> IntV(MathSumMod(NonNullElems, Int32Limbs))
      [] operand.type = "Long" -> LongV(MathSumMod(NonNullElems, Int64Limbs))
      [] operand.type = "Decimal" -> DecV(FSumLeft(NonNullElems, FZero))
      [] OTHER -> QtyV(FSumLeft(NonNullElems, FZero), NonNullElems[1].u)

SameUnits == \A i, j \in NonNullIdx : operand.elems[i].u = operand.elems[j].u

Permuted(p) ==
    [operand EXCEPT !.elems = [i \in 1..Len(operand.elems) |-> operand.elems[p[i]]]]

Perms == Permutations(1..Len(operand.elems))

SameOutcome(r1, r2) ==
    \/ r1.failed /\ r2.failed
    \/ ~r1.failed /\ ~r2.failed /\ r1.val = r2.val

-----------------------------------------------------------------------------
(* Properties                                                              *)

\* C1: on a null operand of any declared type, list-typed or not, AllTrue
\* answers present true, AnyTrue present false, Count present integer 0 and
\* Sum null, none of them with an error.
C1_NullOperandDefaults ==
    operand.null =>
        /\ op = "AllTrue" => res = Ok(BoolV(TRUE))
        /\ op = "AnyTrue" => res = Ok(BoolV(FALSE))
        /\ op = "Count" => res = Ok(IntV(<<0, 0>>))
        /\ op = "Sum" => res = Ok(NullV)

C1_Witness ==
    /\ operand.null /\ ~operand.list /\ operand.type = "Integer"
    /\ op = "Sum" /\ res = Ok(NullV)

\* C2: on a present list of nulls and booleans AllTrue answers present false
\* exactly when some element is false and present true otherwise, AnyTrue
\* answers present true exactly when some element is true and present false
\* otherwise; neither fails nor answers null.
C2_LogicalReduction ==
    (PresentList /\ AllNonNullOfKind("Boolean")) =>
        /\ op = "AllTrue" =>
             res = Ok(BoolV(~(\E i \in NonNullIdx : ~operand.elems[i].b)))
        /\ op = "AnyTrue" =>
             res = Ok(BoolV(\E i \in NonNullIdx : operand.elems[i].b))

C2_Witness ==
    /\ PresentList /\ op = "AllTrue"
    /\ operand.elems = <<BoolV(TRUE), NullV, BoolV(TRUE)>>
    /\ res = Ok(BoolV(TRUE))

\* C3: on every present list, whatever its element type and its elements,
\* Count answers without error the present integer that is the number of
\* non-null elements.
C3_CountNonNull ==
    (PresentList /\ op = "Count") =>
        res = Ok(IntV(<<Cardinality(NonNullIdx), 0>>))

C3_Witness ==
    /\ PresentList /\ op = "Count" /\ operand.type = "Integer"
    /\ operand.elems = <<IntV(<<1, 0>>), NullV, StrV>>
    /\ res = Ok(IntV(<<2, 0>>))

\* C4: on a present list of declared element type Integer, Long, Decimal or
\* Quantity whose non-null elements all have that type (and one unit), Sum
\* answers null exactly when the list has no non-null element and otherwise
\* a present value of the declared element type that is the sum of the
\* non-null elements in that type's arithmetic; a sum of zero is present 0.
C4_SumNullIffNoValue ==
    (/\ PresentList /\ op = "Sum"
     /\ operand.type \in {"Integer", "Long", "Decimal", "Quantity"}
     /\ AllNonNullOfKind(operand.type)
     /\ SameUnits) =>
        /\ ~res.failed
        /\ IsNull(res.val) <=> NonNullIdx = {}
        /\ NonNullIdx # {} => res.val = TypedSum

C4_Witness ==
    /\ PresentList /\ op = "Sum" /\ operand.type = "Integer"
    /\ operand.elems = <<IntV(<<1, 0>>), NullV, IntV(<<LimbBase - 1, LimbBase - 1>>)>>
    /\ res = Ok(IntV(<<0, 0>>))

\* The first non-null element and the first non-null element whose unit
\* differs from its unit.
FirstNonNull == CHOOSE i \in NonNullIdx : \A j \in NonNullIdx : i <= j

DifferIdx ==
    {i \in NonNullIdx : operand.elems[i].u # operand.elems[FirstNonNull].u}

FirstDiffer == CHOOSE i \in DifferIdx : \A j \in DifferIdx : i <= j

\* C5: on a present List<Quantity> whose non-null elements are all
\* Quantities, Sum fails exactly when some non-null element's unit differs
\* from the unit of the first non-null element, and the error then holds
\* the first non-null element's unit and the first differing unit; when it
\* does not fail and some element is non-null the answer is a Quantity of
\* the first non-null element's unit whose magnitude is the sum of the
\* magnitudes of the non-null elements.  A unit conflict never gives null.
C5_QuantityUnits ==
    (/\ PresentList /\ op = "Sum" /\ operand.type = "Quantity"
     /\ AllNonNullOfKind("Quantity")) =>
        /\ res.failed <=> (NonNullIdx # {} /\ DifferIdx # {})
        /\ res.failed =>
             /\ res.err.kind = "DifferentUnits"
             /\ res.err.u1 = operand.elems[FirstNonNull].u
             /\ res.err.u2 = operand.elems[FirstDiffer].u
        /\ (~res.failed /\ NonNullIdx # {}) =>
             res.val = QtyV(FSumLeft(NonNullElems, FZero),
                            operand.elems[FirstNonNull].u)

C5_Witness ==
    /\ PresentList /\ op = "Sum" /\ operand.type = "Quantity"
    /\ operand.elems = <<NullV, QtyV(F(0, 1), "mg"), QtyV(F(0, 2), "g")>>
    /\ res.failed /\ res.err.u1 = "mg" /\ res.err.u2 = "g"

\* C6: on a present list of declared element type Any, Sum answers null
\* without error whatever the list holds, non-null elements included.
C6_SumAnyIsNull ==
    (PresentList /\ op = "Sum" /\ operand.type = "Any") => res = Ok(NullV)

C6_Witness ==
    /\ PresentList /\ op = "Sum" /\ operand.type = "Any"
    /\ operand.elems = <<NullV, IntV(<<1, 0>>), BoolV(TRUE)>>
    /\ res = Ok(NullV)

\* The non-null elements that do not coerce to boolean.
BadBoolIdx == {i \in NonNullIdx : operand.elems[i].kind # "Boolean"}

\* The positions where the loop of AllTrue / AnyTrue answers and stops.
FalseIdx == {i \in NonNullIdx : operand.elems[i] = BoolV(FALSE)}

TrueIdx == {i \in NonNullIdx : operand.elems[i] = BoolV(TRUE)}

\* C7 as stated: AllTrue and AnyTrue fail on a present list as soon as any
\* non-null element, wherever it stands, does not coerce to boolean.
C7_FailsOnAnyBadElement ==
    (PresentList /\ op \in {"AllTrue", "AnyTrue"} /\ BadBoolIdx # {}) =>
        res.failed

\* C7 amended: AllTrue fails on a present list exactly when a non-null
\* element that does not coerce to boolean stands before every non-null
\* false element, and answers present false when a false element comes
\* first; AnyTrue likewise with true for false.
C7_FailsOnBadElementBeforeStop ==
    PresentList =>
        /\ op = "AllTrue" =>
             /\ res.failed <=> \E i \in BadBoolIdx : \A j \in FalseIdx : i < j
             /\ (BadBoolIdx # {} /\ ~res.failed) => res = Ok(BoolV(FALSE))
        /\ op = "AnyTrue" =>
             /\ res.failed <=> \E i \in BadBoolIdx : \A j \in TrueIdx : i < j
             /\ (BadBoolIdx # {} /\ ~res.failed) => res = Ok(BoolV(TRUE))

C7_Witness ==
    /\ PresentList /\ op = "AllTrue"
    /\ operand.elems = <<BoolV(TRUE), StrV, BoolV(FALSE)>>
    /\ res.failed

\* C8 as stated: every operator gives the same outcome (the same value, or
\* a failure in both cases) on a present list and on each permutation of it.
C8_OrderIndependent ==
    (PresentList /\ op # "none") =>
        \A p \in Perms : SameOutcome(res, Eval(op, Permuted(p)))

\* C8 amended: Count on every present list, and Sum on every present list
\* whose declared element type is not Decimal or Quantity, give the same
\* outcome on each permutation; Sum on a Decimal or Quantity list fails on
\* a permutation exactly when it fails on the list and answers null on a
\* permutation exactly when it answers null on the list; AllTrue and
\* AnyTrue give the same outcome on each permutation when every non-null
\* element is a boolean.
C8_OrderIndependentWhereNoStop ==
    PresentList =>
        \A p \in Perms :
            LET r == Eval(op, Permuted(p))
            IN  /\ op = "Count" => SameOutcome(res, r)
                /\ (op = "Sum" /\ operand.type \notin {"Decimal", "Quantity"}) =>
                     SameOutcome(res, r)
                /\ op = "Sum" =>
                     /\ res.failed <=> r.failed
                     /\ IsNull(res.val) <=> IsNull(r.val)
                /\ (op \in {"AllTrue", "AnyTrue"} /\ BadBoolIdx = {}) =>
                     SameOutcome(res, r)

C8_Witness ==
    /\ PresentList /\ op = "Sum" /\ operand.type = "Integer"
    /\ operand.elems = <<IntV(MaxInt32), NullV, IntV(<<1, 0>>)>>
    /\ res = Ok(IntV(MinInt32))

\* C9 as stated: every error an operator returns names the operator.
C9_ErrorsNameOperator == res.failed => res.err.op = op

\* C10: on a present List<Integer> (List<Long>) with a non-null element,
\* all non-null elements being 32-bit (64-bit) integers, Sum answers the
\* present Integer (Long) that is the mathematical sum reduced modulo 2^32
\* (2^64) into the signed range: no error, no null, no wider result.
C10_SumWrapsAround ==
    (/\ PresentList /\ op = "Sum" /\ NonNullIdx # {}
     /\ operand.type \in {"Integer", "Long"}
     /\ AllNonNullOfKind(operand.type)) =>
        /\ operand.type = "Integer" =>
             res = Ok(IntV(MathSumMod(NonNullElems, Int32Limbs)))
        /\ operand.type = "Long" =>
             res = Ok(LongV(MathSumMod(NonNullElems, Int64Limbs)))

C10_Witness ==
    /\ PresentList /\ op = "Sum" /\ operand.type = "Long"
    /\ operand.elems = <<LongV(MaxInt64), LongV(<<1, 0, 0, 0>>)>>
    /\ res = Ok(LongV(MinInt64))

====
